---------------------------- MODULE Spec2Model ----------------------------
(***************************************************************************)
(* A model of the NEAT package: the phenotype network (Neuron,             *)
(* NeuralNetwork, NewNeuralNetwork, Activate, FeedForward), the loading of *)
(* the configuration (NewConfigJSON, NEATUnitTest), the generational loop  *)
(* of the engine (New, evaluateParallel, Run) and inheritParallel.         *)
(*                                                                         *)
(* Signals and weights are integers (the code uses float64).  A pointer to *)
(* a neuron is the neuron's position in NeuralNetwork.Neurons.             *)
(***************************************************************************)
EXTENDS Integers, Sequences, FiniteSets, TLC

\* ------------------------------------------------------------------ bounds
\* node genes of a genome (their ids are drawn from 0 .. MaxNodes-1)
MaxNodes == 3
\* connection genes of a genome of the connection family
MaxConns == 2
\* connection genes of a genome of the wired family
MaxWired == 3
\* connection genes of a genome of the cyclic family
MaxCycle == 4
\* Config.PopulationSize
PopulationSize == 3
\* Config.NumGenerations is in -1 .. MaxGenerations
MaxGenerations == 2
\* compatibility distances, and Config.DistanceThreshold, are in 0 .. MaxDist
MaxDist == 1

\* species of an engine inheritParallel is called on
MaxSpecies == 2
\* members of such a species
MaxMembers == 3

VARIABLES
  genome,   \* the Genome handed to NewNeuralNetwork: NodeGenes, ConnGenes
  nn,       \* the NeuralNetwork decoded from it (NoNetwork before decoding)
  inputs,   \* argument of the last FeedForward call
  outputs,  \* first result of the last FeedForward call (Nil when it failed)
  err,      \* second result of the last FeedForward call
  calls,    \* the Activate calls the last FeedForward call made, in order
  \* the configuration
  config,             \* the *Config NewConfigJSON returned: NilConfig or LoadedConfig
  loadErr,            \* the error NewConfigJSON returned
  NumGenerations,     \* Config.NumGenerations
  DistanceThreshold,  \* Config.DistanceThreshold
  SurvivalRate,       \* Config.SurvivalRate, in halves
  MinimizeFitness,    \* Config.MinimizeFitness
  Dist,               \* what Compatibility returns for each pair of genomes
  \* the engine (NEAT)
  Population,         \* NEAT.Population: the genomes, by genome id
  Species,            \* NEAT.Species: records ID, Representative, Members
  nextSpeciesID,      \* NEAT.nextSpeciesID
  Fitness,            \* Genome.Fitness of every genome
  \* the calls in progress
  pc,                 \* where the caller, Run or inheritParallel is
  generation,         \* the i of Run's outer loop
  launched,           \* goroutines started by the launch loop in progress
  task,               \* state of each goroutine: "none", "started", "evaluated", "done"
  evaluations,        \* Evaluate calls on each genome in this generation
  wg,                 \* counter of the WaitGroup
  cursor,             \* position in Population of Run's speciation loop
  registeredInto      \* species positions Register was called on for the
                      \* genome before cursor

netvars == <<genome, nn, inputs, outputs, err, calls>>
configvars == <<config, loadErr, NumGenerations, DistanceThreshold, SurvivalRate,
                MinimizeFitness, Dist>>
enginevars == <<Population, Species, nextSpeciesID, Fitness>>
callvars == <<generation, launched, task, evaluations, wg, cursor, registeredInto>>
runvars == <<configvars, enginevars, pc, callvars>>
vars == <<netvars, runvars>>

\* A result slice: nil, or the values it holds.
Nil == [isNil |-> TRUE, vals |-> <<>>]
Slice(vals) == [isNil |-> FALSE, vals |-> vals]
NoError == "nil"
NoNetwork == [NumInputs |-> 0, NumOutputs |-> 0, Neurons |-> <<>>, decoded |-> FALSE]

\* ------------------------------------------------------- gene provider
NodeTypes == {"input", "hidden", "output", "bias"}

\* The activation registry: a name and a function real -> real.  Two
\* representatives: one with Fn(0) = 0 and one with Fn(0) # 0.
ActivationNames == {"identity", "step"}

Fn(name, x) ==
  CASE name = "identity" -> x
    [] name = "step" -> IF x >= 0 THEN 1 ELSE 0

NodeIDs == 0 .. (MaxNodes - 1)
\* the ids of the families that wire three nodes
WiredIDs == {0, 1, 2}
Weights == {-1, 2}

NodeGene == [ID : NodeIDs, Type : NodeTypes, Activation : ActivationNames]
\* (the weight of a disabled gene is never read: one value)
ConnGene ==
  {g \in [From : WiredIDs, To : WiredIDs, Weight : Weights, Disabled : BOOLEAN] :
     g.Disabled => g.Weight = 2}

Range(s) == {s[i] : i \in DOMAIN s}

SeqsUpTo(S, n) == UNION {[1 .. k -> S] : k \in 0 .. n}

UniqueIDs(genes) ==
  \A i, j \in DOMAIN genes : i # j => genes[i].ID # genes[j].ID

\* ------------------------------------------------------------ decoding
\* sort.Slice(g.NodeGenes, less by ID): insertion of each gene at its place.
RECURSIVE InsertByID(_, _)
InsertByID(gene, sorted) ==
  IF sorted = <<>> THEN <<gene>>
  ELSE IF gene.ID < Head(sorted).ID THEN <<gene>> \o sorted
  ELSE <<Head(sorted)>> \o InsertByID(gene, Tail(sorted))

SortByIDUnsorted(genes) == genes

RECURSIVE SortByID(_)
SortByID(genes) ==
  IF genes = <<>> THEN <<>>
  ELSE InsertByID(Head(genes), SortByID(Tail(genes)))

\* NewNeuron: a neuron at rest, with no synapse.  Synapses maps the position
\* of a source neuron to the weight of the synapse from it.
NewNeuron(nodeGene) ==
  [ID |-> nodeGene.ID, Type |-> nodeGene.Type, Activated |-> FALSE,
   Signal |-> 0, Synapses |-> <<>>, Activation |-> nodeGene.Activation]

\* sort.Search(len(neurons), neurons[i].ID >= id): the least position whose
\* ID is at least id, len+1 when there is none (positions count from 1).
RECURSIVE SearchFrom(_, _, _, _)
SearchFrom(neurons, id, lo, hi) ==
  IF lo >= hi THEN lo
  ELSE LET h == (lo + hi) \div 2
       IN IF neurons[h].ID >= id
          THEN SearchFrom(neurons, id, lo, h)
          ELSE SearchFrom(neurons, id, h + 1, hi)

Search(neurons, id) == SearchFrom(neurons, id, 1, Len(neurons) + 1)

\* neurons[out].Synapses[neurons[in]] = weight
SetSynapse(synapses, in, weight) ==
  [p \in (DOMAIN synapses) \cup {in} |->
     IF p = in THEN weight ELSE synapses[p]]

\* The body of the loop over g.ConnGenes for one connection gene.
SkippedNever(connGene) == FALSE

\* "if !connGene.Disabled"
Skipped(connGene) == connGene.Disabled

Wire(neurons, connGene) ==
  IF Skipped(connGene) THEN neurons
  ELSE LET in == Search(neurons, connGene.From)
       IN IF in <= Len(neurons) /\ neurons[in].ID = connGene.From
          THEN LET out == Search(neurons, connGene.To)
               IN IF out <= Len(neurons) /\ neurons[out].ID = connGene.To
                  THEN [neurons EXCEPT ![out].Synapses =
                          SetSynapse(neurons[out].Synapses, in, connGene.Weight)]
                  ELSE neurons
          ELSE neurons

RECURSIVE WireAll(_, _)
WireAll(neurons, connGenes) ==
  IF connGenes = <<>> THEN neurons
  ELSE WireAll(Wire(neurons, Head(connGenes)), Tail(connGenes))

CountType(nodeGenes, type) ==
  Cardinality({i \in DOMAIN nodeGenes : nodeGenes[i].Type = type})

\* NewNeuralNetwork applied to the (already sorted) node genes.
Decode(nodeGenes, connGenes) ==
  [NumInputs |-> CountType(nodeGenes, "input"),
   NumOutputs |-> CountType(nodeGenes, "output"),
   Neurons |-> WireAll([i \in DOMAIN nodeGenes |-> NewNeuron(nodeGenes[i])],
                       connGenes),
   decoded |-> TRUE]

\* ----------------------------------------------------------- activation
\* Activate, with the iteration order of every neuron's Synapses map given
\* by ord (position -> sequence of the source positions): Go fixes no order
\* for the range over a map.  Returns the neurons after the call, the value
\* returned, and the log of calls extended by the calls made; stack holds the
\* neurons whose Activate is in progress.
RECURSIVE Activate(_, _, _, _, _)
RECURSIVE SumSynapses(_, _, _, _, _, _, _)

\* neuron.Activate() * weight, one term of inputSum
ContributionUnweighted(val, weight) == val

Contribution(val, weight) == val * weight

\* "the neuron's already activated, or it isn't connected from any neurons"
SettledWhenActivated(neuron) == neuron.Activated

SettledWhenUnwired(neuron) == DOMAIN neuron.Synapses = {}

Settled(neuron) == neuron.Activated \/ DOMAIN neuron.Synapses = {}

\* "n.Activated = true"
MarkNothing(neuron) == neuron

Mark(neuron) == [neuron EXCEPT !.Activated = TRUE]

\* "return n.Signal" at the head of Activate: the neurons and the value.
StoredReturn(neurons, n) == [neurons |-> neurons, val |-> neurons[n].Signal]

\* The entry an Activate call on neuron n leaves in the log of calls: whether
\* n was under evaluation (on the stack of calls) when called, what n was
\* and held then, whether the call returned at the head of Activate, with
\* what value and which neurons changed, and whether the call returns within
\* the limit of calls.  r is what the head of Activate returns.
Call(neurons, n, stack, stored, returns, r) ==
  [n |-> n, reentered |-> n \in stack, activated |-> neurons[n].Activated,
   unwired |-> DOMAIN neurons[n].Synapses = {}, held |-> neurons[n].Signal,
   stored |-> stored, returns |-> returns,
   val |-> r.val,
   changed |-> {p \in DOMAIN neurons : r.neurons[p] # neurons[p]}]

\* Calls after which a pass is given up as not returning.  A pass that
\* computes the sum of each neuron at most once makes one call per output
\* neuron and one per synapse, fewer than this.
CallLimit(neurons) == Len(neurons) * (Len(neurons) + 1) + 1

SumSynapses(neurons, n, rest, inputSum, ord, stack, log) ==
  IF rest = <<>> THEN [neurons |-> neurons, sum |-> inputSum, log |-> log]
  ELSE LET a == Activate(neurons, Head(rest), ord, stack, log)
       IN SumSynapses(a.neurons, n, Tail(rest),
                      inputSum + Contribution(a.val, neurons[n].Synapses[Head(rest)]),
                      ord, stack, a.log)

Activate(neurons, n, ord, stack, log) ==
  LET r == StoredReturn(neurons, n)
  IN IF Settled(neurons[n])
     THEN [neurons |-> r.neurons, val |-> r.val,
           log |-> Append(log, Call(neurons, n, stack, TRUE, TRUE, r))]
     ELSE IF Len(log) >= CallLimit(neurons)
     THEN [neurons |-> r.neurons, val |-> r.val,
           log |-> Append(log, Call(neurons, n, stack, FALSE, FALSE, r))]
     ELSE LET marked == [neurons EXCEPT ![n] = Mark(@)]
              s == SumSynapses(marked, n, ord[n], 0, ord, stack \cup {n},
                               Append(log, Call(neurons, n, stack, FALSE, TRUE, r)))
              signal == Fn(neurons[n].Activation, s.sum)
          IN [neurons |-> [s.neurons EXCEPT ![n].Signal = signal],
              val |-> signal, log |-> s.log]

\* The orders in which the Synapses map of each neuron may be iterated.
Perms(S) == {s \in [1 .. Cardinality(S) -> S] : Range(s) = S}

\* One order per neuron: the sequences o with o[p] an order of neuron p.
RECURSIVE OrdersUpTo(_, _)
OrdersUpTo(neurons, k) ==
  IF k = 0 THEN {<<>>}
  ELSE {Append(o, s) : o \in OrdersUpTo(neurons, k - 1),
                       s \in Perms(DOMAIN neurons[k].Synapses)}

OrderChoices(neurons) == OrdersUpTo(neurons, Len(neurons))

\* ---------------------------------------------------------- FeedForward
\* "register sensor inputs"
RegisterInputs(net, in) ==
  [p \in DOMAIN net.Neurons |->
     IF p <= net.NumInputs
     THEN [net.Neurons[p] EXCEPT !.Signal = in[p]]
     ELSE net.Neurons[p]]

\* "recursively propagate": Activate on positions NumInputs+1 ..
\* NumInputs+NumOutputs in turn, the results appended to outputs.
RECURSIVE Propagate(_, _, _, _, _, _)
Propagate(neurons, i, last, outs, ord, log) ==
  IF i > last THEN [neurons |-> neurons, outputs |-> outs, log |-> log]
  ELSE LET a == Activate(neurons, i, ord, {}, log)
       IN Propagate(a.neurons, i + 1, last, Append(outs, a.val), ord, a.log)

\* "reset all neurons"
ResetFlagsOnly(neurons) ==
  [p \in DOMAIN neurons |-> [neurons[p] EXCEPT !.Activated = FALSE]]

ResetAll(neurons) ==
  [p \in DOMAIN neurons |->
     [neurons[p] EXCEPT !.Activated = FALSE, !.Signal = 0]]

\* The length check at the head of FeedForward.
InvalidInputSizeTooFew(net, in) == Len(in) < net.NumInputs

InvalidInputSize(net, in) == Len(in) # net.NumInputs

\* FeedForward: the network after the call, the outputs and the error, and
\* the log of the Activate calls it made.
FeedForwardOp(net, in, ord) ==
  IF InvalidInputSize(net, in)
  THEN [nn |-> net, outputs |-> Nil, err |-> "Invalid number of inputs",
        calls |-> <<>>]
  ELSE LET r == Propagate(RegisterInputs(net, in), net.NumInputs + 1,
                          net.NumInputs + net.NumOutputs, <<>>, ord, <<>>)
       IN [nn |-> [net EXCEPT !.Neurons = ResetAll(r.neurons)],
           outputs |-> Slice(r.outputs), err |-> NoError, calls |-> r.log]

\* ------------------------------------------------------------- actions
\* Input values are non-zero, so that a registered input differs from a
\* neuron at rest.
InputValues == {1, 2}
InputSeqs == SeqsUpTo(InputValues, MaxNodes + 1)

\* The input lengths tried on a network: the right one, its neighbours, 0.
InputLengths(net) ==
  {0, net.NumInputs - 1, net.NumInputs, net.NumInputs + 1}

\* NewNeuralNetwork(g): sorts g.NodeGenes in place and builds the network.
NewNeuralNetwork ==
  /\ genome' = [genome EXCEPT !.NodeGenes = SortByID(genome.NodeGenes)]
  /\ nn' = Decode(SortByID(genome.NodeGenes), genome.ConnGenes)
  /\ inputs' = <<>>
  /\ outputs' = Nil
  /\ err' = NoError
  /\ calls' = <<>>
  /\ UNCHANGED runvars

\* n.FeedForward(inputs)
FeedForward ==
  /\ nn.decoded
  /\ \E in \in InputSeqs :
       /\ Len(in) \in InputLengths(nn)
       /\ \E ord \in OrderChoices(nn.Neurons) :
            LET r == FeedForwardOp(nn, in, ord)
            IN /\ nn' = r.nn
               /\ inputs' = in
               /\ outputs' = r.outputs
               /\ err' = r.err
               /\ calls' = r.calls
  /\ UNCHANGED <<genome, runvars>>

NetNext == NewNeuralNetwork \/ FeedForward

\* ---------------------------------------------------------- genomes
\* Node family: node genes in any order, of any type and activation, ids
\* unique; no connection gene.
NodeGeneSeqs == {s \in SeqsUpTo(NodeGene, MaxNodes) : UniqueIDs(s)}

NodeFamily == [NodeGenes : NodeGeneSeqs, ConnGenes : {<<>>}]

\* Connection family: node genes for any non-empty set of ids (input 0,
\* output 1, hidden above), connection genes of every kind: disabled,
\* dangling, repeated.
TypeOfID(id) == IF id = 0 THEN "input" ELSE IF id = 1 THEN "output" ELSE "hidden"

RECURSIVE GenesOfIDs(_, _)
GenesOfIDs(ids, activation) ==
  IF ids = {} THEN <<>>
  ELSE LET id == CHOOSE x \in ids : \A y \in ids : x <= y
       IN <<[ID |-> id, Type |-> TypeOfID(id), Activation |-> activation]>>
          \o GenesOfIDs(ids \ {id}, activation)

ConnFamily ==
  [NodeGenes : {GenesOfIDs(ids, "identity") : ids \in (SUBSET WiredIDs) \ {{}}},
   ConnGenes : SeqsUpTo(ConnGene, MaxConns)]

\* Wired family: three node genes laid out as one of Layouts, one activation
\* for the genome, up to MaxWired enabled connection genes between any two
\* nodes (cycles and self-loops included), each with its own weight.
\* Cyclic family: the same with up to MaxCycle connection genes, for the
\* layouts with hidden neurons.
Layouts ==
  { <<"input", "input", "output">>,
    <<"input", "output", "hidden">>,
    <<"hidden", "input", "output">>,
    <<"output", "hidden", "hidden">> }

LayoutGenes(layout, activation) ==
  [i \in DOMAIN layout |->
     [ID |-> i - 1, Type |-> layout[i], Activation |-> activation]]

Pairs == WiredIDs \X WiredIDs
PairSeq == [k \in 1 .. 9 |-> <<(k - 1) \div 3, (k - 1) % 3>>]

WiredConns(edges, weight) ==
  LET Chosen(p) == p \in edges
      ps == SelectSeq(PairSeq, Chosen)
  IN [k \in DOMAIN ps |->
        [From |-> ps[k][1], To |-> ps[k][2], Weight |-> weight[ps[k]],
         Disabled |-> FALSE]]

WiredConnSeqs(max) ==
  UNION {{WiredConns(edges, weight) : weight \in [edges -> Weights]} :
           edges \in {e \in SUBSET Pairs : Cardinality(e) <= max}}

WiredFamily ==
  [NodeGenes : {LayoutGenes(l, a) : l \in Layouts, a \in ActivationNames},
   ConnGenes : WiredConnSeqs(MaxWired)]

CyclicLayouts == {l \in Layouts : \E i \in DOMAIN l : l[i] = "hidden"}

CyclicFamily ==
  [NodeGenes : {LayoutGenes(l, a) : l \in CyclicLayouts, a \in ActivationNames},
   ConnGenes : WiredConnSeqs(MaxCycle)]

\* No engine: the state of the engine's variables while a network is studied.
NoEngine ==
  /\ config = "nil"
  /\ loadErr = "nil"
  /\ NumGenerations = 0
  /\ DistanceThreshold = 0
  /\ SurvivalRate = 0
  /\ MinimizeFitness = FALSE
  /\ Dist = <<>>
  /\ Population = <<>>
  /\ Species = <<>>
  /\ nextSpeciesID = 0
  /\ Fitness = <<>>
  /\ pc = "done"
  /\ generation = 0
  /\ launched = 0
  /\ task = <<>>
  /\ evaluations = <<>>
  /\ wg = 0
  /\ cursor = 0
  /\ registeredInto = <<>>

InitWith(family) ==
  /\ genome \in family
  /\ nn = NoNetwork
  /\ inputs = <<>>
  /\ outputs = Nil
  /\ err = NoError
  /\ calls = <<>>
  /\ NoEngine

\* networks that propagate signals
Spec == InitWith(WiredFamily) /\ [][NetNext]_vars
\* decoding of node genes
SpecNodes == InitWith(NodeFamily) /\ [][NetNext]_vars
\* decoding of connection genes
SpecConns == InitWith(ConnFamily) /\ [][NetNext]_vars
\* densely wired networks
SpecCyclic == InitWith(CyclicFamily) /\ [][NetNext]_vars

\* ================================================================ engine
GenomeIDs == 0 .. (PopulationSize - 1)

\* Config.InitFitness, and what the evaluation function returns for a genome
InitFitness == 0
Evaluation(g) == g + 1

\* Genome.Evaluate(evalfn): the fitness of every genome after genome g was
\* evaluated.
Evaluate(fitness, g) == [fitness EXCEPT ![g] = Evaluation(g)]

\* NewSpecies(id, genome)
NewSpecies(id, g) == [ID |-> id, Representative |-> g, Members |-> <<g>>]

\* Species.Register(genome, minimizeFitness)
Register(species, g) == [species EXCEPT !.Members = Append(@, g)]

\* Compatibility(a, b, coeffUnmatching, coeffMatching), an oracle: symmetric,
\* 0 between a genome and itself.
Distances ==
  {d \in [GenomeIDs \X GenomeIDs -> 0 .. MaxDist] :
     \A a, b \in GenomeIDs : d[a, b] = d[b, a] /\ d[a, a] = 0}

Compatibility(a, b) == Dist[a, b]

\* "dist < n.Config.DistanceThreshold"
CompatibleAtThreshold(dist) == dist <= DistanceThreshold

Compatible(dist) == dist < DistanceThreshold

\* The inner loop of Run for one genome, from species position i (from 1):
\* the species list after it and whether the genome was registered.
\* "i < len(n.Species) && !registered"
ScanContinuesToEnd(species, i, registered) == i <= Len(species)

ScanContinues(species, i, registered) == i <= Len(species) /\ ~registered

\* The result also lists the positions Register was called on.
RECURSIVE ScanSpecies(_, _, _, _, _)
ScanSpecies(species, g, i, registered, into) ==
  IF ~ScanContinues(species, i, registered)
  THEN [species |-> species, registered |-> registered, into |-> into]
  ELSE IF Compatible(Compatibility(species[i].Representative, g))
       THEN ScanSpecies([species EXCEPT ![i] = Register(species[i], g)],
                        g, i + 1, TRUE, Append(into, i))
       ELSE ScanSpecies(species, g, i + 1, registered, into)

\* ------------------------------------------------------- configuration
\* A configuration file: absent, or present with contents that json decodes
\* or not.  Of the settings, the contents that decode give NumGenerations and
\* DistanceThreshold; the other settings have one value.
NilConfig == "nil"
LoadedConfig == "config"

ConfigFiles ==
  {[exists |-> FALSE, wellFormed |-> FALSE, NumGenerations |-> 0,
    DistanceThreshold |-> 0],
   [exists |-> TRUE, wellFormed |-> FALSE, NumGenerations |-> 0,
    DistanceThreshold |-> 0]}
  \cup [exists : {TRUE}, wellFormed : {TRUE},
        NumGenerations : (-1) .. MaxGenerations,
        DistanceThreshold : 0 .. MaxDist]

\* NewConfigJSON(filename): the configuration and the error it returns.
\* os.Open fails on an absent file, decoder.Decode on malformed contents.
NewConfigJSONOp(file) ==
  IF ~file.exists THEN [config |-> NilConfig, err |-> "open"]
  ELSE IF ~file.wellFormed THEN [config |-> NilConfig, err |-> "decode"]
  ELSE [config |-> LoadedConfig, err |-> NoError]

\* A read of a field of *Config, "c.NumInputs", panics on a nil pointer.
DereferenceNeverPanics(c) == FALSE

DereferencePanics(c) == c = NilConfig

\* The pc of the caller: "load", "summarize", "new"; of Run: "loop",
\* "launch", "wait", "speciate", "done"; "panic" after a nil dereference.
RunInit ==
  /\ config = NilConfig
  /\ loadErr = NoError
  /\ NumGenerations = 0
  /\ DistanceThreshold = 0
  /\ SurvivalRate = 0
  /\ MinimizeFitness = FALSE
  /\ Dist \in Distances
  /\ Population = <<>>
  /\ Species = <<>>
  /\ nextSpeciesID = 0
  /\ Fitness = <<>>
  /\ pc = "load"
  /\ generation = 0
  /\ launched = 0
  /\ task = [t \in 1 .. PopulationSize |-> "none"]
  /\ evaluations = [g \in GenomeIDs |-> 0]
  /\ wg = 0
  /\ cursor = 0
  /\ registeredInto = <<>>
  /\ genome = [NodeGenes |-> <<>>, ConnGenes |-> <<>>]
  /\ nn = NoNetwork
  /\ inputs = <<>>
  /\ outputs = Nil
  /\ err = NoError
  /\ calls = <<>>

\* NEATUnitTest: config, err := NewConfigJSON("config.json"); when err is
\* not nil it prints FAIL and goes on.
NewConfigJSON ==
  /\ pc = "load"
  /\ \E file \in ConfigFiles :
       LET r == NewConfigJSONOp(file)
       IN /\ config' = r.config
          /\ loadErr' = r.err
          /\ IF r.config = NilConfig
             THEN UNCHANGED <<NumGenerations, DistanceThreshold>>
             ELSE /\ NumGenerations' = file.NumGenerations
                  /\ DistanceThreshold' = file.DistanceThreshold
  /\ pc' = "summarize"
  /\ UNCHANGED <<netvars, SurvivalRate, MinimizeFitness, Dist, enginevars, callvars>>

\* NEATUnitTest: config.Summarize()
Summarize ==
  /\ pc = "summarize"
  /\ pc' = IF DereferencePanics(config) THEN "panic" ELSE "new"
  /\ UNCHANGED <<netvars, configvars, enginevars, callvars>>

\* New(config, evaluation): the population, and the first species around a
\* randomly selected genome.
New ==
  /\ pc = "new"
  /\ IF DereferencePanics(config)
     THEN /\ pc' = "panic"
          /\ UNCHANGED enginevars
     ELSE /\ Population' = [i \in 1 .. PopulationSize |-> i - 1]
          /\ \E g \in GenomeIDs : Species' = <<NewSpecies(0, g)>>
          /\ nextSpeciesID' = 1
          /\ Fitness' = [g \in GenomeIDs |-> InitFitness]
          /\ pc' = "loop"
  /\ UNCHANGED <<netvars, configvars, callvars>>

\* "i < n.Config.NumGenerations"
LoopContinuesOnceMore(i, n) == i <= n

LoopContinues(i, n) == i < n

\* Run: "for i := 0; i < n.Config.NumGenerations; i++", and the head of
\* evaluateParallel: wg.Add(PopulationSize).
EnterGeneration ==
  /\ pc = "loop"
  /\ LoopContinues(generation, NumGenerations)
  /\ wg' = wg + PopulationSize
  /\ launched' = 0
  /\ task' = [t \in 1 .. PopulationSize |-> "none"]
  /\ evaluations' = [g \in GenomeIDs |-> 0]
  /\ pc' = "launch"
  /\ UNCHANGED <<netvars, configvars, enginevars, generation, cursor, registeredInto>>

LeaveRun ==
  /\ pc = "loop"
  /\ ~LoopContinues(generation, NumGenerations)
  /\ pc' = "done"
  /\ UNCHANGED <<netvars, configvars, enginevars, callvars>>

\* The genome the t-th goroutine of evaluateParallel is called with:
\* "}(genome, n.Evaluation)", genome being the t-th of the population.
TaskArgumentLast(population, t) == population[Len(population)]

TaskArgument(population, t) == population[t]

\* "for _, genome := range n.Population", after launched iterations
LaunchStopsEarly(population, n) == n < Len(population) - 1

LaunchContinues(population, n) == n < Len(population)

\* evaluateParallel: "go func(genome, evalfn)" for the next genome of the
\* population (the Sleep that follows orders nothing).
Launch ==
  /\ pc = "launch"
  /\ LaunchContinues(Population, launched)
  /\ task' = [task EXCEPT ![launched + 1] = "started"]
  /\ launched' = launched + 1
  /\ UNCHANGED <<netvars, configvars, enginevars, pc, generation, evaluations,
                 wg, cursor, registeredInto>>

LaunchedAll ==
  /\ pc = "launch"
  /\ ~LaunchContinues(Population, launched)
  /\ pc' = "wait"
  /\ UNCHANGED <<netvars, configvars, enginevars, callvars>>

\* the t-th task: genome.Evaluate(evalfn)
TaskEvaluate(t) ==
  /\ task[t] = "started"
  /\ LET g == TaskArgument(Population, t)
     IN /\ Fitness' = Evaluate(Fitness, g)
        /\ evaluations' = [evaluations EXCEPT ![g] = @ + 1]
  /\ task' = [task EXCEPT ![t] = "evaluated"]
  /\ UNCHANGED <<netvars, configvars, Population, Species, nextSpeciesID, pc,
                 generation, launched, wg, cursor, registeredInto>>

\* the t-th task: the deferred wg.Done()
TaskDone(t) ==
  /\ task[t] = "evaluated"
  /\ wg' = wg - 1
  /\ task' = [task EXCEPT ![t] = "done"]
  /\ UNCHANGED <<netvars, configvars, enginevars, pc, generation, launched,
                 evaluations, cursor, registeredInto>>

\* wg.Wait() returns
WaitReturnsAtOnce == TRUE

WaitReturns == wg = 0

Wait ==
  /\ pc = "wait"
  /\ WaitReturns
  /\ pc' = "speciate"
  /\ cursor' = 1
  /\ UNCHANGED <<netvars, configvars, enginevars, generation, launched, task,
                 evaluations, wg, registeredInto>>

\* "n.Species = append(n.Species, NewSpecies(n.nextSpeciesID, genome))"
ReplaceLast(species, s) == Append(SubSeq(species, 1, Len(species) - 1), s)

AppendSpecies(species, s) == Append(species, s)

\* "n.nextSpeciesID++"
SameSpeciesID(id) == id

IncrementSpeciesID(id) == id + 1

\* Run: the body of "for _, genome := range n.Population" for one genome
Speciate ==
  /\ pc = "speciate"
  /\ cursor <= Len(Population)
  /\ LET g == Population[cursor]
         scan == ScanSpecies(Species, g, 1, FALSE, <<>>)
     IN /\ IF scan.registered
           THEN /\ Species' = scan.species
                /\ UNCHANGED nextSpeciesID
           ELSE /\ Species' = AppendSpecies(scan.species, NewSpecies(nextSpeciesID, g))
                /\ nextSpeciesID' = IncrementSpeciesID(nextSpeciesID)
        /\ registeredInto' = scan.into
  /\ cursor' = cursor + 1
  /\ UNCHANGED <<netvars, configvars, Population, Fitness, pc, generation,
                 launched, task, evaluations, wg>>

\* Run: the end of the generation ("i++"; inheritParallel is commented out)
EndGeneration ==
  /\ pc = "speciate"
  /\ ~(cursor <= Len(Population))
  /\ generation' = generation + 1
  /\ pc' = "loop"
  /\ UNCHANGED <<netvars, configvars, enginevars, launched, task, evaluations,
                 wg, cursor, registeredInto>>

RunNext ==
  \/ NewConfigJSON
  \/ Summarize
  \/ New
  \/ EnterGeneration
  \/ LeaveRun
  \/ Launch
  \/ LaunchedAll
  \/ \E t \in 1 .. PopulationSize : TaskEvaluate(t)
  \/ \E t \in 1 .. PopulationSize : TaskDone(t)
  \/ Wait
  \/ Speciate
  \/ EndGeneration

\* the engine: the configuration is loaded, then New, then Run
SpecRun == RunInit /\ [][RunNext]_vars

\* The scheduler runs a goroutine that can take a step, and an evaluation
\* returns.
SpecRunLive == SpecRun /\ WF_vars(RunNext)

\* ------------------------------------------------------ inheritParallel
\* "survived := math.Ceil(float64(len(s.Members)) * n.Config.SurvivalRate)",
\* the rate counted in halves
Survived(members, rate) == (Len(members) * rate + 1) \div 2

\* "if survived > 2"
SortsFromTwo(survived) == survived >= 2

Sorts(survived) == survived > 2

\* comparisonFunc, on the genomes a and b of two positions
Less(a, b) ==
  IF MinimizeFitness THEN Fitness[a] < Fitness[b] ELSE Fitness[a] > Fitness[b]

\* "sort.Slice(s.Members, comparisonFunc)": the orders it may leave; the sort
\* is not stable.
SortSlice(members) ==
  {s \in {[i \in DOMAIN members |-> members[p[i]]] : p \in Perms(DOMAIN members)} :
     \A i, j \in DOMAIN s : i < j => ~Less(s[j], s[i])}

\* Engines inheritParallel may be called on: the species, each with its
\* members, and the fitness of the genomes.
MemberLists == {m \in SeqsUpTo(GenomeIDs, MaxMembers) : m # <<>>}

SpeciesLists ==
  UNION {{[i \in 1 .. k |->
             [ID |-> i - 1, Representative |-> m[i][1], Members |-> m[i]]] :
            m \in [1 .. k -> MemberLists]} : k \in 0 .. MaxSpecies}

FitnessTables == [GenomeIDs -> {InitFitness, Evaluation(0)}]

SurvivalRates == {1, 2, 3}

InheritInit ==
  /\ config = LoadedConfig
  /\ loadErr = NoError
  /\ NumGenerations = 0
  /\ DistanceThreshold = 0
  /\ SurvivalRate \in SurvivalRates
  /\ MinimizeFitness \in BOOLEAN
  /\ Dist = <<>>
  /\ Population = [i \in 1 .. PopulationSize |-> i - 1]
  /\ Species \in SpeciesLists
  /\ nextSpeciesID = Len(Species)
  /\ Fitness \in FitnessTables
  /\ pc = "inherit"
  /\ generation = 0
  /\ launched = 0
  /\ task = <<>>
  /\ evaluations = <<>>
  /\ wg = 0
  /\ cursor = 0
  /\ registeredInto = <<>>
  /\ genome = [NodeGenes |-> <<>>, ConnGenes |-> <<>>]
  /\ nn = NoNetwork
  /\ inputs = <<>>
  /\ outputs = Nil
  /\ err = NoError
  /\ calls = <<>>

\* inheritParallel: "wg.Add(len(n.Species))" and the empty nextGeneration
InheritEnter ==
  /\ pc = "inherit"
  /\ wg' = wg + Len(Species)
  /\ launched' = 0
  /\ task' = [i \in DOMAIN Species |-> "none"]
  /\ pc' = "inheritLaunch"
  /\ UNCHANGED <<netvars, configvars, enginevars, generation, evaluations,
                 cursor, registeredInto>>

\* "go func(s *Species)" for the next species of the list
InheritLaunch ==
  /\ pc = "inheritLaunch"
  /\ launched < Len(Species)
  /\ task' = [task EXCEPT ![launched + 1] = "started"]
  /\ launched' = launched + 1
  /\ UNCHANGED <<netvars, configvars, enginevars, pc, generation, evaluations,
                 wg, cursor, registeredInto>>

InheritLaunchedAll ==
  /\ pc = "inheritLaunch"
  /\ ~(launched < Len(Species))
  /\ pc' = "inheritWait"
  /\ UNCHANGED <<netvars, configvars, enginevars, callvars>>

\* the task of the i-th species, from its first line to its return; it
\* calls no wg.Done().
InheritTask(i) ==
  /\ pc \in {"inheritLaunch", "inheritWait"}
  /\ i \in DOMAIN task
  /\ task[i] = "started"
  /\ IF Sorts(Survived(Species[i].Members, SurvivalRate))
     THEN \E sorted \in SortSlice(Species[i].Members) :
            Species' = [Species EXCEPT ![i].Members = sorted]
     ELSE UNCHANGED Species
  /\ task' = [task EXCEPT ![i] = "returned"]
  /\ UNCHANGED <<netvars, configvars, Population, nextSpeciesID, Fitness, pc,
                 generation, launched, evaluations, wg, cursor, registeredInto>>

\* "wg.Wait()" returns, and "n.Population = nextGeneration.population"
InheritWait ==
  /\ pc = "inheritWait"
  /\ WaitReturns
  /\ Population' = <<>>
  /\ pc' = "inherited"
  /\ UNCHANGED <<netvars, configvars, Species, nextSpeciesID, Fitness, callvars>>

InheritNext ==
  \/ InheritEnter
  \/ InheritLaunch
  \/ InheritLaunchedAll
  \/ \E i \in 1 .. MaxSpecies : InheritTask(i)
  \/ InheritWait

\* one call of inheritParallel
SpecInherit == InheritInit /\ [][InheritNext]_vars

\* The scheduler runs a goroutine that can take a step.
SpecInheritLive == SpecInherit /\ WF_vars(InheritNext)

\* ================================================================ claims
Called == nn.decoded /\ ~(outputs = Nil /\ err = NoError)
Succeeded == Called /\ err = NoError
AtRest(neurons) ==
  \A p \in DOMAIN neurons : ~neurons[p].Activated /\ neurons[p].Signal = 0
SynapseCount(neurons) ==
  Cardinality({<<f, t>> \in (DOMAIN neurons) \X (DOMAIN neurons) :
                 f \in DOMAIN neurons[t].Synapses})

\* C1: a FeedForward call whose input length differs from NumInputs returns
\* an error and no output, and leaves every neuron (Signal, Activated and all)
\* as it was.  (A step into a Called state is a FeedForward call.)
C1_InvalidInputRejected ==
  [][(nn.decoded /\ Called' /\ Len(inputs') # nn.NumInputs)
       => (err' # NoError /\ outputs' = Nil /\ nn' = nn)]_vars

\* a call with one input too many was made on a wired network with inputs
C1_Witness ==
  /\ Called /\ err # NoError
  /\ nn.NumInputs >= 1 /\ Len(inputs) = nn.NumInputs + 1
  /\ SynapseCount(nn.Neurons) >= 1

\* C2: two successive successful FeedForward calls with the same inputs on
\* the same network return the same outputs, whatever the order in which the
\* synapses of a neuron are iterated.
C2_RepeatedCallsAgree ==
  [][(Succeeded /\ Succeeded' /\ inputs' = inputs) => outputs' = outputs]_vars

\* C3: whenever no call is in progress, every neuron of a decoded network
\* has Activated = false and Signal = 0.
C3_NeuronsAtRest == nn.decoded => AtRest(nn.Neurons)

\* a successful call produced a non-zero output, so signals were set
C3_Witness ==
  /\ Succeeded /\ nn.NumInputs >= 1
  /\ \E k \in DOMAIN outputs.vals : outputs.vals[k] # 0
  /\ AtRest(nn.Neurons)

\* The layout FeedForward indexes by: the first NumInputs neurons are the
\* input neurons and the next NumOutputs the output neurons, each block in
\* ascending id order.
Ascending(neurons, lo, hi) ==
  \A p, q \in lo .. hi : p < q => neurons[p].ID < neurons[q].ID

InputOutputBlocks(net) ==
  /\ \A p \in 1 .. net.NumInputs : net.Neurons[p].Type = "input"
  /\ \A p \in (net.NumInputs + 1) .. (net.NumInputs + net.NumOutputs) :
       net.Neurons[p].Type = "output"
  /\ Ascending(net.Neurons, 1, net.NumInputs)
  /\ Ascending(net.Neurons, net.NumInputs + 1, net.NumInputs + net.NumOutputs)

\* Every input id is below every other id, and every output id is below
\* every hidden and bias id.
IDsByType(genes) ==
  \A i, j \in DOMAIN genes :
    /\ (genes[i].Type = "input" /\ genes[j].Type # "input")
         => genes[i].ID < genes[j].ID
    /\ (genes[i].Type = "output" /\ genes[j].Type \notin {"input", "output"})
         => genes[i].ID < genes[j].ID

\* C4 as stated: for every genome with unique node ids the decoded network
\* has the input neurons first and the output neurons next, whatever ids the
\* hidden and bias genes carry.
C4_BlocksAlways == nn.decoded => InputOutputBlocks(nn)

\* C4 amended: the decoded network has the input neurons first and the
\* output neurons next, each block ascending by id, exactly when the genome's
\* input ids are below all other ids and its output ids below all hidden and
\* bias ids.
C4_BlocksWhenIDsByType ==
  nn.decoded => (InputOutputBlocks(nn) <=> IDsByType(genome.NodeGenes))

\* three node genes of three kinds were decoded into the blocks
C4_Witness ==
  /\ nn.decoded /\ Len(nn.Neurons) = 3
  /\ nn.NumInputs = 1 /\ nn.NumOutputs = 1
  /\ nn.Neurons[3].Type \in {"hidden", "bias"}
  /\ InputOutputBlocks(nn)

\* C5 as stated: with no connection gene, a successful call returns on every
\* output position the output neuron's activation function applied to 0.
C5_ActivationOfZero ==
  (Succeeded /\ genome.ConnGenes = <<>>)
    => /\ Len(outputs.vals) = nn.NumOutputs
       /\ \A k \in 1 .. nn.NumOutputs :
            outputs.vals[k] = Fn(nn.Neurons[nn.NumInputs + k].Activation, 0)

\* C5 amended: with no connection gene, a successful call returns 0 (the
\* signal a neuron without synapses holds at rest) on every output position;
\* the activation function is not applied.
C5_ZeroOutputs ==
  (Succeeded /\ genome.ConnGenes = <<>>)
    => /\ Len(outputs.vals) = nn.NumOutputs
       /\ \A k \in 1 .. nn.NumOutputs : outputs.vals[k] = 0

\* a successful call on a network with inputs and an output neuron whose
\* activation function is not 0 at 0
C5_Witness ==
  /\ Succeeded /\ genome.ConnGenes = <<>>
  /\ nn.NumInputs >= 1 /\ nn.NumOutputs >= 1
  /\ nn.Neurons[nn.NumInputs + 1].Activation = "step"
  /\ nn.Neurons[nn.NumInputs + 1].Type = "output"

\* ------------------------------------------------ reference semantics
\* The neurons p reaches backwards along synapses in at most n steps.
RECURSIVE Upstream(_, _, _)
Upstream(neurons, set, n) ==
  IF n = 0 THEN set
  ELSE Upstream(neurons,
                set \cup UNION {DOMAIN neurons[q].Synapses : q \in set}, n - 1)

Acyclic(neurons) ==
  \A p \in DOMAIN neurons :
    p \notin Upstream(neurons, DOMAIN neurons[p].Synapses, Len(neurons))

InputsUnwired(neurons) ==
  \A p \in DOMAIN neurons :
    neurons[p].Type = "input" => DOMAIN neurons[p].Synapses = {}

\* rank of neuron p among the neurons of its type, by ascending id
RankInType(neurons, p) ==
  Cardinality({q \in DOMAIN neurons :
                 neurons[q].Type = neurons[p].Type /\ neurons[q].ID <= neurons[p].ID})

\* the k-th output neuron
OutputNeuron(neurons, k) ==
  CHOOSE p \in DOMAIN neurons :
    neurons[p].Type = "output" /\ RankInType(neurons, p) = k

RECURSIVE SumOver(_, _, _, _, _)
RECURSIVE Value(_, _, _, _)

\* sum over the synapses (s -> p, w), s in srcs, of value(s) * w
SumOver(neurons, in, p, srcs, restIsZero) ==
  IF srcs = {} THEN 0
  ELSE LET s == CHOOSE x \in srcs : TRUE
       IN Value(neurons, in, s, restIsZero) * neurons[p].Synapses[s]
          + SumOver(neurons, in, p, srcs \ {s}, restIsZero)

\* value(input i) = inputs[i]; value(n) = activation_n(sum over synapses).
\* With restIsZero, a neuron that is no input and has no synapse has value 0.
Value(neurons, in, p, restIsZero) ==
  IF neurons[p].Type = "input" THEN in[RankInType(neurons, p)]
  ELSE IF restIsZero /\ DOMAIN neurons[p].Synapses = {} THEN 0
  ELSE Fn(neurons[p].Activation,
          SumOver(neurons, in, p, DOMAIN neurons[p].Synapses, restIsZero))

\* The spec's example in units of 1/2 for signals and weights (products in
\* units of 1/4): inputs 0, 1, identity output 2, 0->2 weight 0.5, 1->2
\* weight 1.5, input [2.0, 1.0], output [2.5].
ExampleNetwork ==
  Decode(LayoutGenes(<<"input", "input", "output">>, "identity"),
         << [From |-> 0, To |-> 2, Weight |-> 1, Disabled |-> FALSE],
            [From |-> 1, To |-> 2, Weight |-> 3, Disabled |-> FALSE] >>)

ExampleHolds ==
  \A ord \in OrderChoices(ExampleNetwork.Neurons) :
    FeedForwardOp(ExampleNetwork, <<4, 2>>, ord).outputs = Slice(<<10>>)

\* C6 as stated: on a network whose synapses are acyclic and whose input
\* neurons have no synapse, a successful call returns at position k the value
\* of the k-th output neuron, value(n) = activation_n(sum of value(s) * w).
C6_ReferenceValues ==
  (Succeeded /\ Acyclic(nn.Neurons) /\ InputsUnwired(nn.Neurons))
    => /\ Len(outputs.vals) = nn.NumOutputs
       /\ \A k \in 1 .. nn.NumOutputs :
            outputs.vals[k] =
              Value(nn.Neurons, inputs, OutputNeuron(nn.Neurons, k), FALSE)

\* C6 amended: the same for genomes whose input ids are below all other ids
\* and whose output ids are below all hidden and bias ids, with value(n) = 0
\* for a neuron that is no input and has no synapse (its activation function
\* is not applied); and the example holds.
C6_ReferenceValuesAtRest ==
  /\ ExampleHolds
  /\ (/\ Succeeded /\ Acyclic(nn.Neurons) /\ InputsUnwired(nn.Neurons)
      /\ IDsByType(genome.NodeGenes))
       => /\ Len(outputs.vals) = nn.NumOutputs
          /\ \A k \in 1 .. nn.NumOutputs :
               outputs.vals[k] =
                 Value(nn.Neurons, inputs, OutputNeuron(nn.Neurons, k), TRUE)

\* a successful call on input -> hidden -> output, with a non-zero output
C6_Witness ==
  /\ Succeeded /\ Acyclic(nn.Neurons) /\ InputsUnwired(nn.Neurons)
  /\ IDsByType(genome.NodeGenes)
  /\ nn.NumInputs = 1 /\ nn.NumOutputs = 1
  /\ DOMAIN nn.Neurons[3].Synapses = {1}
  /\ 3 \in DOMAIN nn.Neurons[2].Synapses
  /\ outputs.vals[1] # 0

\* the enabled connection genes from id f to id t
EnabledGenes(g, f, t) ==
  {k \in DOMAIN g.ConnGenes :
     /\ ~g.ConnGenes[k].Disabled
     /\ g.ConnGenes[k].From = f
     /\ g.ConnGenes[k].To = t}

Last(S) == CHOOSE k \in S : \A j \in S : j <= k

\* C7: after NewNeuralNetwork there is one neuron per node gene, and the
\* neuron with id t has a synapse from the neuron with id f exactly when the
\* genome has a non-disabled connection gene f -> t; the synapse carries that
\* gene's weight (the last one's, when several genes connect f to t).
\* Disabled and dangling genes add nothing and raise no error.
C7_SynapsesOfEnabledGenes ==
  (nn.decoded /\ ~Called) =>
    /\ err = NoError
    /\ Len(nn.Neurons) = Len(genome.NodeGenes)
    /\ \A p \in DOMAIN nn.Neurons :
         /\ nn.Neurons[p].ID = genome.NodeGenes[p].ID
         /\ DOMAIN nn.Neurons[p].Synapses \subseteq DOMAIN nn.Neurons
    /\ \A t, f \in DOMAIN nn.Neurons :
         LET genes == EnabledGenes(genome, nn.Neurons[f].ID, nn.Neurons[t].ID)
         IN /\ f \in DOMAIN nn.Neurons[t].Synapses <=> genes # {}
            /\ genes # {} =>
                 nn.Neurons[t].Synapses[f] = genome.ConnGenes[Last(genes)].Weight

\* decoded: one gene that became a synapse, one disabled or dangling gene
\* that did not
C7_Witness ==
  /\ nn.decoded /\ ~Called
  /\ Len(genome.ConnGenes) = 2
  /\ SynapseCount(nn.Neurons) = 1
  /\ \E k \in DOMAIN genome.ConnGenes :
       \/ genome.ConnGenes[k].Disabled
       \/ \A p \in DOMAIN nn.Neurons :
            nn.Neurons[p].ID # genome.ConnGenes[k].To

\* ---------------------------------------------------------- speciation
\* A step of Run's speciation loop, for the genome at cursor.
SpeciationStep == pc = "speciate" /\ cursor' = cursor + 1

\* positions of the species whose representative is below the threshold
\* from genome g
Matching(g) ==
  {i \in 1 .. Len(Species) :
     Dist[Species[i].Representative, g] < DistanceThreshold}

Least(S) == CHOOSE i \in S : \A j \in S : i <= j

\* C8: a genome below the threshold for two or more species is registered
\* into the earliest-listed of them and into no other species: Register is
\* called on that species alone, no other species changes, none is created.
C8_FirstMatchOnly ==
  [][(SpeciationStep /\ Cardinality(Matching(Population[cursor])) >= 2)
       => LET g == Population[cursor]
              first == Least(Matching(g))
          IN /\ registeredInto' = <<first>>
             /\ Len(Species') = Len(Species)
             /\ Species'[first] = Register(Species[first], g)
             /\ \A j \in 1 .. Len(Species) : j # first => Species'[j] = Species[j]]_vars

\* the genome before cursor is below the threshold for two species and
\* Register was called on the earlier one alone
C8_Witness ==
  /\ pc = "speciate" /\ cursor > 1
  /\ Cardinality(Matching(Population[cursor - 1])) >= 2
  /\ registeredInto = <<Least(Matching(Population[cursor - 1]))>>
  /\ Len(Species[Len(Species)].Members) = 1

\* C9: a genome below the threshold for no species makes the list grow by
\* exactly one species, appended at the end with the genome as its
\* representative; Register is called on no species and no existing species
\* changes.
C9_NewSpeciesWhenNoMatch ==
  [][(SpeciationStep /\ Matching(Population[cursor]) = {})
       => /\ Len(Species') = Len(Species) + 1
          /\ SubSeq(Species', 1, Len(Species)) = Species
          /\ Species'[Len(Species')].Representative = Population[cursor]
          /\ registeredInto' = <<>>]_vars

\* the genome before cursor has just become the representative of a new last
\* species, every older species being at or above the threshold from it
C9_Witness ==
  /\ pc = "speciate" /\ cursor > 1 /\ Len(Species) >= 2
  /\ registeredInto = <<>>
  /\ Species[Len(Species)].Representative = Population[cursor - 1]
  /\ \A i \in 1 .. (Len(Species) - 1) :
       Dist[Species[i].Representative, Population[cursor - 1]] >= DistanceThreshold

\* C10: in every generation, while Run compares and registers genomes (the
\* speciation loop), the evaluation task of every genome of the population
\* has completed: evaluated, and its Done counted.
C10_SpeciationAfterEvaluation ==
  pc = "speciate" =>
    /\ wg = 0
    /\ \A i \in DOMAIN Population :
         /\ task[i] = "done"
         /\ Fitness[Population[i]] = Evaluation(Population[i])

\* the speciation loop of the second generation is under way
C10_Witness ==
  /\ pc = "speciate" /\ generation = 1 /\ cursor = 2
  /\ \A i \in DOMAIN Population : task[i] = "done"

\* ---------------------------------------------------------- evaluation
\* The fitness of the genomes after population[i], population[i+1], ... are
\* evaluated one after another.
RECURSIVE EvaluatedInTurn(_, _, _)
EvaluatedInTurn(fitness, population, i) ==
  IF i > Len(population) THEN fitness
  ELSE EvaluatedInTurn([fitness EXCEPT ![population[i]] = Evaluation(population[i])],
                       population, i + 1)

\* C11: when evaluateParallel has returned, every genome has the fitness
\* that evaluating the population one after another gives it, whatever the
\* interleaving of the tasks; and the step in which a task evaluates changes
\* the fitness of no genome but the one of its own position.
C11_ParallelAsSequential ==
  /\ [](pc = "speciate" =>
          Fitness = EvaluatedInTurn([g \in GenomeIDs |-> InitFitness], Population, 1))
  /\ [][\A t \in 1 .. PopulationSize :
          (task[t] = "started" /\ task'[t] = "evaluated")
            => \A i \in DOMAIN Population :
                 i # t => Fitness'[Population[i]] = Fitness[Population[i]]]_vars

\* two tasks have evaluated, the later-launched one first, while the launch
\* loop is still running
C11_Witness ==
  /\ pc = "launch" /\ launched = 2
  /\ task[1] = "started" /\ task[2] = "evaluated"
  /\ Fitness[Population[2]] = Evaluation(Population[2])
  /\ Fitness[Population[1]] = InitFitness

\* C12: in every generation no genome is evaluated more than once; once the
\* launch loop is over there is a task for every position of the population;
\* and when evaluateParallel has returned every genome was evaluated exactly
\* once in this generation.
C12_EvaluatedOncePerGeneration ==
  /\ \A g \in DOMAIN evaluations : evaluations[g] <= 1
  /\ pc \in {"wait", "speciate"} =>
       \A i \in DOMAIN Population : task[i] # "none"
  /\ pc = "speciate" =>
       \A i \in DOMAIN Population : evaluations[Population[i]] = 1

\* the second generation's evaluation is over
C12_Witness ==
  /\ pc = "speciate" /\ generation = 1
  /\ \A i \in DOMAIN Population : evaluations[Population[i]] = 1

\* C13: a species of the list keeps its representative in every step that
\* follows, whether a genome is registered into it or a species is created.
C13_RepresentativeKept ==
  [][\A i \in DOMAIN Species :
       /\ i \in DOMAIN Species'
       /\ Species'[i].Representative = Species[i].Representative]_vars

\* the first species has taken a member that is not its representative, and
\* a species was created after it
C13_Witness ==
  /\ pc = "speciate" /\ Len(Species) >= 2
  /\ \E k \in DOMAIN Species[1].Members :
       Species[1].Members[k] # Species[1].Representative
  /\ Species[1].ID = 0

\* C14: every step keeps the species there are, in their positions (same id,
\* same representative, members only added at the end), so that the list
\* grows at its end only; nextSpeciesID never decreases; and no two species
\* of the list have the same id.
C14_SpeciesAppendOnly ==
  /\ [](\A i, j \in DOMAIN Species : i # j => Species[i].ID # Species[j].ID)
  /\ [][/\ Len(Species') >= Len(Species)
        /\ \A i \in DOMAIN Species :
             /\ Species'[i].ID = Species[i].ID
             /\ Species'[i].Representative = Species[i].Representative
             /\ SubSeq(Species'[i].Members, 1, Len(Species[i].Members))
                  = Species[i].Members
        /\ nextSpeciesID' >= nextSpeciesID]_vars

\* three species were created during Run, after the one New created
C14_Witness ==
  /\ Len(Species) = 4 /\ nextSpeciesID = 4
  /\ \A i \in DOMAIN Species : Species[i].ID = i - 1

C18_RunTerminates ==
  /\ (pc = "loop" /\ generation = 0) ~> (pc = "done")
  /\ [](pc = "done" =>
          generation = IF NumGenerations <= 0 THEN 0 ELSE NumGenerations)
  /\ [][generation' # generation =>
          /\ generation' = generation + 1
          /\ pc = "speciate" /\ cursor = Len(Population) + 1
          /\ \A i \in DOMAIN Population :
               task[i] = "done" /\ evaluations[Population[i]] = 1]_vars

\* Run has returned after MaxGenerations generations
C18_Witness ==
  /\ pc = "done" /\ NumGenerations = MaxGenerations /\ generation = MaxGenerations
  /\ Len(Species) >= 2

\* ------------------------------------------------------ calls of a pass
\* the calls of the last pass that computed a weighted sum
Computed == {k \in DOMAIN calls : ~calls[k].stored}

\* C16: a FeedForward call with an input of NumInputs values returns without
\* error, every Activate call of the pass returns, the pass making no more
\* than one call per output neuron and one per synapse; and a call on a
\* neuron whose own Activate is in progress returns at once the signal the
\* neuron holds.
C16_PassTerminates ==
  (Called /\ Len(inputs) = nn.NumInputs) =>
    /\ err = NoError
    /\ \A k \in DOMAIN calls : calls[k].returns
    /\ Len(calls) <= nn.NumOutputs + SynapseCount(nn.Neurons)
    /\ \A k \in DOMAIN calls :
         calls[k].reentered => (calls[k].stored /\ calls[k].val = calls[k].held)

\* a pass on a network with a self-loop and a longer cycle: two calls met a
\* neuron under evaluation
C16_Witness ==
  /\ Succeeded
  /\ \E p \in DOMAIN nn.Neurons : p \in DOMAIN nn.Neurons[p].Synapses
  /\ \E j, k \in DOMAIN calls :
       /\ calls[j].reentered /\ calls[k].reentered
       /\ calls[j].n # calls[k].n

\* C17: in a pass no neuron computes its weighted sum twice; and an Activate
\* call on a neuron without synapses, or marked activated, returns the signal
\* the neuron holds and changes no neuron.
C17_ComputedAtMostOnce ==
  Succeeded =>
    /\ \A j, k \in Computed : j # k => calls[j].n # calls[k].n
    /\ \A k \in DOMAIN calls :
         (calls[k].unwired \/ calls[k].activated)
           => /\ calls[k].stored
              /\ calls[k].val = calls[k].held
              /\ calls[k].changed = {}

\* in one pass a neuron that had started computing was called again and
\* returned what it held, and a neuron without synapses returned a non-zero
\* input
C17_Witness ==
  /\ Succeeded
  /\ \E j, k \in DOMAIN calls :
       /\ j < k /\ calls[j].n = calls[k].n
       /\ ~calls[j].stored /\ calls[k].activated /\ calls[k].stored
  /\ \E k \in DOMAIN calls : calls[k].unwired /\ calls[k].val # 0

\* ------------------------------------------------------ reproduction
SortedByFitness(members) ==
  \A i, j \in DOMAIN members :
    i < j => IF MinimizeFitness
             THEN Fitness[members[i]] <= Fitness[members[j]]
             ELSE Fitness[members[i]] >= Fitness[members[j]]

\* how many times genome g is in the list
Count(members, g) == Cardinality({i \in DOMAIN members : members[i] = g})

Permutation(a, b) ==
  Len(a) = Len(b) /\ \A g \in GenomeIDs : Count(a, g) = Count(b, g)

C20_InheritReturns == (pc = "inherit") ~> (pc = "inherited")

=============================================================================
